---------------------------- MODULE Spec2Model ----------------------------
(***************************************************************************)
(* A model of the random-walk PageRank approximation of src/pagerank.go    *)
(* (Graph, NewGraph, Calculate, traverseFrom, Pagerank) over the node type *)
(* of src/base.go (Base: IsStarter, Traverse, Traversals).                 *)
(*                                                                         *)
(* Two Graph instances are built the way buildNewGraph builds them: same   *)
(* seed, same edge structure, same starter flags.  They reference either   *)
(* separate node objects (as buildNewGraph does) or the same node objects  *)
(* (the fan-out pattern Base's atomic counter exists for).                 *)
(*                                                                         *)
(* src/unnamed/part_000 is the variant of the package in which the Graph   *)
(* owns its nodes and edges (NewGraph(seed), AddEdge, outlinks); its       *)
(* Calculate and traverseFrom are those of src/pagerank.go, reading        *)
(* g.nodes and g.outlinks(node) in place of *g.nodes and g.edgesFor(node). *)
(* Of the variant, NewGraph, AddEdge, outlinks and the walks of Calculate  *)
(* are modelled; its Pagerank is not.                                      *)
(*                                                                         *)
(* Abstractions:                                                           *)
(*  - math/rand is a deterministic stream fixed by the seed: draw k of     *)
(*    seed s is bit (k mod SeedLen) of s.  Float32 maps a draw d to d/2,   *)
(*    Intn(n) maps it to d mod n.  Every sequence of SeedLen draws is the  *)
(*    stream of some seed.                                                 *)
(*    Float32 and Intn each consume one draw.                              *)
(*  - float32 probabilities are halves: jumpProbability is jp/2 with jp in *)
(*    0..2, a Float32 draw is x/2 with x in 0..1.                          *)
(*  - a Pagerank value is the exact quotient, kept as a reduced fraction   *)
(*    <<p, q>>; q = 0 stands for the IEEE results of a division by zero    *)
(*    (<<0,0>> NaN, <<1,0>> +Inf).  The float32 rounding of the quotient   *)
(*    is not modelled.                                                     *)
(*  - uint64 counters are unbounded naturals: the bounds below keep every  *)
(*    counter far below 2^64.                                              *)
(***************************************************************************)
EXTENDS Integers, Sequences, FiniteSets, TLC

\* ------------------------------------------------------------- bounds
\* Number of draws after which the random stream of a seed repeats.
SeedLen == 3
\* Largest RoundsPerNode passed to Calculate.
MaxRounds == 1
\* Largest number of Calculate calls made on one Graph.
MaxCalls == 2
\* Largest number of nodes one walk visits before the model stops following it.
MaxWalk == 3
\* Largest number of AddEdge calls made on one Graph.
MaxEdges == 3

\* ------------------------------------------------------ the inputs
Graphs == {1, 2}
\* The graph of a caller that uses only one.
Solo == 1
\* The node handles of the collection a caller hands to NewGraph, in
\* collection order.
NodeSeq == <<1, 2, 3>>
Nodes == {NodeSeq[i] : i \in 1..Len(NodeSeq)}
NumNodes == Len(NodeSeq)
Seeds == 0..(2^SeedLen - 1)
JumpProbs == {0, 1, 2}
None == [none |-> TRUE]

\* Edge structures (adjacency lists, duplicates and order kept):
\* a cycle 1 <-> 2 with a branch to the dead end 3; and an acyclic one in
\* which 3 has no incoming edge.
Topologies ==
    { (1 :> <<2, 3>> @@ 2 :> <<1>> @@ 3 :> << >>),
      (1 :> <<2>> @@ 2 :> << >> @@ 3 :> <<2, 1>>) }

\* Further edge structures for the walks: the cycle 1 -> 2 -> 3 -> 1; a cycle
\* on 1 and 2 with a choice of links, beside the dead end 3 no edge leads to;
\* an acyclic one whose longest path has two nodes.
WalkTopologies ==
    Topologies \cup
    { (1 :> <<2>> @@ 2 :> <<3>> @@ 3 :> <<1>>),
      (1 :> <<2, 1>> @@ 2 :> <<1>> @@ 3 :> << >>),
      (1 :> <<2>> @@ 2 :> << >> @@ 3 :> <<2>>) }

\* Starter flags, as the set of non-starter nodes: all starters; a non-starter
\* that has incoming edges in both structures; with it the node that has none
\* in the second; no starter at all.
NonStarterSets == {{}, {2}, {2, 3}, Nodes}

VARIABLES
    shared,           \* TRUE: both graphs reference the same node objects
    seed,             \* the seed given to NewGraph
    edges,            \* the adjacency: the caller's map behind edgesFor, keyed
                      \* by node; in the graph-owning variant Graph.edges,
                      \* indexed like Graph.nodes
    nonstarter,       \* Base.nonstarter of each node
    owning,           \* TRUE: the Graph is the graph-owning variant
    nodes,            \* the node collection: *g.nodes, or the variant's g.nodes
    nodeMap,          \* the variant's Graph.nodeMap: node -> index into g.nodes
                      \* (from 0, as in the source)
    added,            \* history: the AddEdge calls made, as <<from, to>>
    count,            \* Base.traversals of each node object
    randomSource,     \* Graph.randomSource: draws consumed so far (mod SeedLen)
    traversals,       \* Graph.traversals
    jumpProbability,  \* Graph.jumpProbability
    calculated,       \* Graph.calculated
    summed,           \* Graph.summed
    pc,               \* where each graph's Calculate is
    rounds,           \* Calculate's RoundsPerNode
    idx,              \* Calculate's position in *g.nodes (1-based)
    round,            \* Calculate's round counter
    node,             \* traverseFrom's node
    result,           \* what the last Pagerank call on the graph returned (and
                      \* whether it found the total cached)
    walk,             \* history: the nodes the current (or last) walk visited
    ncalls,           \* history: the number of Calculate calls made on the graph
    script,           \* history: the calls made on the first of two graphs driven alike
    invoked,          \* history: Traverse() invocations per node object
    origins           \* history: the origins of the walks the current (or last)
                      \* Calculate call on the graph has started, in order

vars == <<shared, seed, edges, nonstarter, owning, nodes, nodeMap, added, count,
          randomSource, traversals, jumpProbability, calculated, summed, pc,
          rounds, idx, round, node, result, walk, ncalls, script, invoked,
          origins>>

config == <<shared, seed, edges, nonstarter>>

\* What only the graph-owning variant's AddEdge changes besides edges.
owned == <<owning, nodes, nodeMap, added>>

\* ------------------------------------------------ nodes (src/base.go)
Objs == Graphs \X Nodes

\* The node object behind handle n of graph g's collection.
Obj(g, n) == IF shared THEN <<1, n>> ELSE <<g, n>>

\* Mutant: every node counts as a starter.
IsStarterAlways(n) == TRUE

\* return !b.nonstarter
IsStarter(n) == n \notin nonstarter

\* Mutant: the counter is kept in a type so narrow that it wraps.
AddUint64Wrap(v) == (v + 1) % 2

\* Mutant: an increment of a counter another writer has already raised is
\* lost (a load and a store in place of the atomic add).
AddUint64Lost(v) == IF v = 0 THEN 1 ELSE v

\* atomic.AddUint64(&b.traversals, 1): the counter's new value.
AddUint64(v) == v + 1

\* Mutant: a visit is counted twice.
TraverseTwice(c, o) == [c EXCEPT ![o] = AddUint64(AddUint64(@))]

Traverse(c, o) == [c EXCEPT ![o] = AddUint64(@)]

Traversals(g, n) == count[Obj(g, n)]

\* ------------------------------------------- the random source
\* Mutant: every graph draws from one process-wide source.
SourceShared(g) == Solo

\* The rand.Rand a graph draws from: its own.
SourceOf(g) == g

\* The next value of g's random source (one draw).
Draw(g) == (seed \div (2^randomSource[SourceOf(g)])) % 2

Consume(rs, g) == [rs EXCEPT ![SourceOf(g)] = (@ + 1) % SeedLen]

\* Float32() in halves: a value of {0, 1/2}, always below 1.
Float32(d) == d

\* Intn(n), 0 <= result < n.
Intn(d, n) == d % n

\* ------------------------------------------------- traverseFrom
\* Mutant: the comparison is not strict.
JumpTestOrEqual(x, jp) == x <= jp

\* Mutant: the comparison is the wrong way round.
JumpTestInverted(x, jp) == jp < x

\* x < g.jumpProbability
JumpTest(x, jp) == x < jp

\* The nodes of the caller's collection from index i on that have an edge to
\* n, in collection order.
RECURSIVE PredFrom(_, _)
PredFrom(n, i) ==
    IF i > Len(NodeSeq) THEN << >>
    ELSE (IF \E k \in 1..Len(edges[NodeSeq[i]]) : edges[NodeSeq[i]][k] = n
          THEN <<NodeSeq[i]>> ELSE << >>) \o PredFrom(n, i + 1)

\* Mutant: the edges are resolved in both directions.
EdgesForSymmetric(n) == edges[n] \o PredFrom(n, 1)

\* Mutant: a node without outgoing links is given a link to itself.
EdgesForOrSelf(n) == IF edges[n] = << >> THEN <<n>> ELSE edges[n]

\* The variant's g.outlinks(node): return g.edges[g.nodeMap[node]]
Outlinks(n) == edges[nodeMap[n] + 1]

\* g.edgesFor(node), the caller's getEdges: return edges[n]; in the variant
\* g.outlinks(node).
EdgesFor(n) == IF owning THEN Outlinks(n) ELSE edges[n]

\* len(outlinks) < 1
NoOutlinks(outlinks) == Len(outlinks) < 1

\* ----------------------------------------------------- Calculate
\* The first index i >= from of a starter node in the collection, its length
\* + 1 when there is none: the loop's "continue" on non-starters.
RECURSIVE NextStarter(_)
NextStarter(from) ==
    IF from > Len(nodes) THEN Len(nodes) + 1
    ELSE IF IsStarter(nodes[from]) THEN from
    ELSE NextStarter(from + 1)

\* Whether the loops of Calculate have another traverseFrom call to make.
MoreRounds(g) == idx[g] <= Len(nodes) /\ round[g] < rounds[g]
MoreStarters(g) == rounds[g] > 0 /\ NextStarter(idx[g] + 1) <= Len(nodes)

\* Mutant: the loop over the collection is left after the first starter's
\* rounds.
HasMoreThisStarter(g) == MoreRounds(g)

HasMore(g) == idx[g] <= Len(nodes) /\ (MoreRounds(g) \/ MoreStarters(g))

\* ------------------------------------------------------ Pagerank
RECURSIVE SumFrom(_, _)
SumFrom(g, i) ==
    IF i > Len(nodes) THEN 0 ELSE Traversals(g, nodes[i]) + SumFrom(g, i + 1)

\* for _, node := range *g.nodes { sum += node.Traversals() }
SumTraversals(g) == SumFrom(g, 1)

RECURSIVE Gcd(_, _)
Gcd(a, b) == IF b = 0 THEN a ELSE Gcd(b, a % b)

\* float64(a) / float64(b) as a reduced fraction; b = 0 gives NaN or +Inf.
Quot(a, b) ==
    IF b = 0 THEN (IF a = 0 THEN <<0, 0>> ELSE <<1, 0>>)
    ELSE <<a \div Gcd(a, b), b \div Gcd(a, b)>>

\* Mutant: the total is computed afresh by every call, so a second Calculate
\* is followed by a new total.
TotalRefreshed(g) == SumTraversals(g)

\* Mutant: g.summed is not consulted, every call adds the sum again.
TotalResummed(g) == traversals[g] + SumTraversals(g)

\* The total Pagerank divides by: summed on the first successful call only.
Total(g) == IF ~summed[g] THEN traversals[g] + SumTraversals(g) ELSE traversals[g]

\* Mutant: "not calculated" is taken to mean "no traversal recorded".
PagerankErrOnEmpty(g) == ~calculated[g] /\ SumTraversals(g) = 0

\* Mutant: a zero total is reported as an error.
PagerankErrOnZeroTotal(g) == ~calculated[g] \/ Total(g) = 0

\* if !g.calculated { return 0, error }
PagerankErr(g) == ~calculated[g]

PagerankValue(g, n, normalized, total) ==
    IF normalized THEN Quot(Traversals(g, n), total)
    ELSE Quot(Len(nodes) * Traversals(g, n), total)

\* ----------------------------------------------------------- Init
\* The Calculate calls a caller may make: (jumpProbability, RoundsPerNode).
CallParams == [jp : JumpProbs, rounds : 0..MaxRounds]

\* NewGraph, for every graph: a fresh random source, nothing calculated.
InitGraphs ==
    /\ randomSource = [g \in Graphs |-> 0]
    /\ traversals = [g \in Graphs |-> 0]
    /\ jumpProbability = [g \in Graphs |-> 0]
    /\ calculated = [g \in Graphs |-> FALSE]
    /\ summed = [g \in Graphs |-> FALSE]
    /\ pc = [g \in Graphs |-> "idle"]
    /\ rounds = [g \in Graphs |-> 0]
    /\ idx = [g \in Graphs |-> 0]
    /\ round = [g \in Graphs |-> 0]
    /\ node = [g \in Graphs |-> 0]
    /\ result = [g \in Graphs |-> None]
    /\ walk = [g \in Graphs |-> << >>]
    /\ ncalls = [g \in Graphs |-> 0]
    /\ script = << >>
    /\ invoked = [o \in Objs |-> 0]
    /\ origins = [g \in Graphs |-> << >>]

\* NewGraph(seed, edgesFor, nodes): the Graph references the caller's
\* collection and has no nodeMap.
InitCaller ==
    /\ owning = FALSE
    /\ nodes = NodeSeq
    /\ nodeMap = None
    /\ added = << >>

\* One Graph over a caller's fresh nodes; the caller chooses each call as it
\* goes.
Init ==
    /\ shared = FALSE
    /\ seed \in Seeds
    /\ edges \in Topologies
    /\ nonstarter \in NonStarterSets
    /\ count = [o \in Objs |-> 0]
    /\ InitCaller
    /\ InitGraphs

\* Two Graphs built alike over separate, fresh node collections.
InitPair ==
    /\ shared = FALSE
    /\ seed \in Seeds
    /\ edges \in Topologies
    /\ nonstarter \in NonStarterSets
    /\ count = [o \in Objs |-> 0]
    /\ InitCaller
    /\ InitGraphs

\* Two Graphs built alike that reference the same fresh node objects, all
\* starters (no node of buildNewGraph sets nonstarter).
InitShared ==
    /\ shared = TRUE
    /\ seed \in Seeds
    /\ edges \in Topologies
    /\ nonstarter = {}
    /\ count = [o \in Objs |-> 0]
    /\ InitCaller
    /\ InitGraphs

\* One Graph over a caller's fresh nodes, over any of the edge structures.
InitCalc ==
    /\ shared = FALSE
    /\ seed \in Seeds
    /\ edges \in WalkTopologies
    /\ nonstarter \in NonStarterSets
    /\ count = [o \in Objs |-> 0]
    /\ InitCaller
    /\ InitGraphs

\* The variant's NewGraph(seed): the Graph owns an empty node list, edge
\* table and nodeMap; the nodes it will be given are fresh starters.  The
\* seeds are those of the two constant streams of draws.
InitOwned ==
    /\ shared = FALSE
    /\ seed \in {0, 2^SeedLen - 1}
    /\ nonstarter = {}
    /\ count = [o \in Objs |-> 0]
    /\ owning = TRUE
    /\ nodes = << >>
    /\ edges = << >>
    /\ nodeMap = << >>
    /\ added = << >>
    /\ InitGraphs

\* The nodes reachable from the nodes of S along the edges.
RECURSIVE Closure(_)
Closure(S) ==
    LET T == S \cup UNION {{edges[m][i] : i \in 1..Len(edges[m])} : m \in S}
    IN IF T = S THEN S ELSE Closure(T)

\* The edge relation has no cycle: no node is reachable from its successors.
Acyclic ==
    \A n \in Nodes : n \notin Closure({edges[n][i] : i \in 1..Len(edges[n])})

\* One Graph over a caller's fresh nodes, over the edge structures without a
\* cycle.
InitLive == InitCalc /\ Acyclic

\* -------------------------------------------------------- actions
\* Calculate is called: g.jumpProbability is set and the loop over *g.nodes
\* is entered.
CalculateCall(g, jp, r) ==
    /\ pc[g] = "idle"
    /\ ncalls[g] < MaxCalls
    /\ jumpProbability' = [jumpProbability EXCEPT ![g] = jp]
    /\ rounds' = [rounds EXCEPT ![g] = r]
    /\ idx' = [idx EXCEPT ![g] = NextStarter(1)]
    /\ round' = [round EXCEPT ![g] = 0]
    /\ pc' = [pc EXCEPT ![g] = "loop"]
    /\ result' = [result EXCEPT ![g] = None]
    /\ ncalls' = [ncalls EXCEPT ![g] = @ + 1]
    /\ origins' = [origins EXCEPT ![g] = << >>]
    /\ UNCHANGED <<config, owned, count, randomSource, traversals, calculated,
                   summed, node, walk, invoked>>

\* Mutant: the loops are nested the other way round, a round over all
\* starters inside a loop over the rounds.
StartWalkRoundMajor(g) ==
    /\ pc[g] = "loop"
    /\ HasMore(g)
    /\ LET wrap == NextStarter(idx[g] + 1) > Len(nodes)
           i == IF round[g] = 0 THEN idx[g]
                ELSE IF wrap THEN NextStarter(1) ELSE NextStarter(idx[g] + 1)
           k == IF round[g] = 0 THEN 1
                ELSE IF wrap THEN round[g] + 1 ELSE round[g]
       IN /\ idx' = [idx EXCEPT ![g] = i]
          /\ round' = [round EXCEPT ![g] = k]
          /\ node' = [node EXCEPT ![g] = nodes[i]]
          /\ origins' = [origins EXCEPT ![g] = Append(@, nodes[i])]
    /\ walk' = [walk EXCEPT ![g] = << >>]
    /\ pc' = [pc EXCEPT ![g] = "traverse"]
    /\ UNCHANGED <<config, owned, count, randomSource, traversals,
                   jumpProbability, calculated, summed, rounds, result, ncalls,
                   script, invoked>>

\* The loops of Calculate reach their next g.traverseFrom(node) call.
StartWalk(g) ==
    /\ pc[g] = "loop"
    /\ HasMore(g)
    /\ LET i == IF MoreRounds(g) THEN idx[g] ELSE NextStarter(idx[g] + 1)
           k == IF MoreRounds(g) THEN round[g] + 1 ELSE 1
       IN /\ idx' = [idx EXCEPT ![g] = i]
          /\ round' = [round EXCEPT ![g] = k]
          /\ node' = [node EXCEPT ![g] = nodes[i]]
          /\ origins' = [origins EXCEPT ![g] = Append(@, nodes[i])]
    /\ walk' = [walk EXCEPT ![g] = << >>]
    /\ pc' = [pc EXCEPT ![g] = "traverse"]
    /\ UNCHANGED <<config, owned, count, randomSource, traversals,
                   jumpProbability, calculated, summed, rounds, result, ncalls,
                   script, invoked>>

\* The loops of Calculate are over: g.calculated = true and Calculate returns
\* (its locals die).
CalculateReturn(g) ==
    /\ pc[g] = "loop"
    /\ ~HasMore(g)
    /\ calculated' = [calculated EXCEPT ![g] = TRUE]
    /\ pc' = [pc EXCEPT ![g] = "idle"]
    /\ idx' = [idx EXCEPT ![g] = 0]
    /\ round' = [round EXCEPT ![g] = 0]
    /\ node' = [node EXCEPT ![g] = 0]
    /\ walk' = [walk EXCEPT ![g] = << >>]
    /\ UNCHANGED <<config, owned, count, randomSource, traversals,
                   jumpProbability, summed, rounds, result, ncalls, script,
                   invoked, origins>>

\* traverseFrom(node): node.Traverse().
TraverseNode(g) ==
    /\ pc[g] = "traverse"
    /\ count' = Traverse(count, Obj(g, node[g]))
    /\ invoked' = [invoked EXCEPT ![Obj(g, node[g])] = @ + 1]
    /\ walk' = [walk EXCEPT ![g] = Append(@, node[g])]
    /\ pc' = [pc EXCEPT ![g] = "decide"]
    /\ UNCHANGED <<config, owned, randomSource, traversals, jumpProbability,
                   calculated, summed, rounds, idx, round, node, result, ncalls,
                   script, origins>>

\* traverseFrom(node): the draw is below g.jumpProbability, the walk ends.
JumpOut(g) ==
    /\ pc[g] = "decide"
    /\ JumpTest(Float32(Draw(g)), jumpProbability[g])
    /\ randomSource' = Consume(randomSource, g)
    /\ pc' = [pc EXCEPT ![g] = "loop"]
    /\ UNCHANGED <<config, owned, count, traversals, jumpProbability,
                   calculated, summed, rounds, idx, round, node, result, walk,
                   ncalls, script, invoked, origins>>

\* traverseFrom(node): no jump, and node has no outgoing links; the walk ends.
DeadEnd(g) ==
    /\ pc[g] = "decide"
    /\ ~JumpTest(Float32(Draw(g)), jumpProbability[g])
    /\ NoOutlinks(EdgesFor(node[g]))
    /\ randomSource' = Consume(randomSource, g)
    /\ pc' = [pc EXCEPT ![g] = "loop"]
    /\ UNCHANGED <<config, owned, count, traversals, jumpProbability,
                   calculated, summed, rounds, idx, round, node, result, walk,
                   ncalls, script, invoked, origins>>

\* Mutant: the drawn index is used on the collection, not on the outlinks.
FollowLinkAny(g) ==
    /\ pc[g] = "decide"
    /\ Len(walk[g]) < MaxWalk
    /\ ~JumpTest(Float32(Draw(g)), jumpProbability[g])
    /\ ~NoOutlinks(EdgesFor(node[g]))
    /\ LET rs1 == Consume(randomSource, g)
           d2 == (seed \div (2^rs1[SourceOf(g)])) % 2
       IN /\ node' = [node EXCEPT ![g] = nodes[Intn(d2, Len(nodes)) + 1]]
          /\ randomSource' = Consume(rs1, g)
    /\ pc' = [pc EXCEPT ![g] = "traverse"]
    /\ UNCHANGED <<config, owned, count, traversals, jumpProbability,
                   calculated, summed, rounds, idx, round, result, walk, ncalls,
                   script, invoked, origins>>

\* traverseFrom(node): no jump; a second draw picks the outgoing link the
\* walk recurses into.
FollowLink(g) ==
    /\ pc[g] = "decide"
    /\ Len(walk[g]) < MaxWalk
    /\ ~JumpTest(Float32(Draw(g)), jumpProbability[g])
    /\ ~NoOutlinks(EdgesFor(node[g]))
    /\ LET outlinks == EdgesFor(node[g])
           rs1 == Consume(randomSource, g)
           d2 == (seed \div (2^rs1[SourceOf(g)])) % 2
       IN /\ node' = [node EXCEPT ![g] = outlinks[Intn(d2, Len(outlinks)) + 1]]
          /\ randomSource' = Consume(rs1, g)
    /\ pc' = [pc EXCEPT ![g] = "traverse"]
    /\ UNCHANGED <<config, owned, count, traversals, jumpProbability,
                   calculated, summed, rounds, idx, round, result, walk, ncalls,
                   script, invoked, origins>>

\* Pagerank(n, normalized) on a graph no Calculate call is running on.
PagerankCall(g, n, normalized) ==
    /\ pc[g] = "idle"
    /\ IF PagerankErr(g)
       THEN /\ result' = [result EXCEPT ![g] =
                   [err |-> TRUE, value |-> <<0, 1>>, node |-> n,
                    normalized |-> normalized, cached |-> FALSE]]
            /\ UNCHANGED <<traversals, summed>>
       ELSE LET total == Total(g)
                v == PagerankValue(g, n, normalized, total)
            IN /\ traversals' = [traversals EXCEPT ![g] = total]
               /\ summed' = [summed EXCEPT ![g] = TRUE]
               /\ result' = [result EXCEPT ![g] =
                      [err |-> FALSE, value |-> v, node |-> n,
                       normalized |-> normalized, cached |-> summed[g]]]
    /\ UNCHANGED <<config, owned, count, randomSource, jumpProbability,
                   calculated, pc, rounds, idx, round, node, walk, ncalls, script,
                   invoked, origins>>

\* Mutant: the node is appended whether or not nodeMap holds it.
RegisterAlways(st, n) ==
    [nodes |-> Append(st.nodes, n),
     edges |-> Append(st.edges, << >>),
     nodeMap |-> (n :> Len(st.nodes)) @@ st.nodeMap]

\* if _, exists := g.nodeMap[n]; !exists { append n to g.nodes, an empty list
\* to g.edges; g.nodeMap[n] = len(g.nodes) - 1 }
Register(st, n) ==
    IF n \in DOMAIN st.nodeMap THEN st
    ELSE [nodes |-> Append(st.nodes, n),
          edges |-> Append(st.edges, << >>),
          nodeMap |-> (n :> Len(st.nodes)) @@ st.nodeMap]

\* The variant's AddEdge(nodeFrom, nodeTo), called between Calculate calls.
AddEdge(nodeFrom, nodeTo) ==
    /\ owning
    /\ pc[Solo] = "idle"
    /\ Len(added) < MaxEdges
    /\ LET st0 == [nodes |-> nodes, edges |-> edges, nodeMap |-> nodeMap]
           st1 == Register(st0, nodeFrom)
           st2 == Register(st1, nodeTo)
       IN /\ nodes' = st2.nodes
          /\ nodeMap' = st2.nodeMap
          /\ edges' = [st2.edges EXCEPT ![st2.nodeMap[nodeFrom] + 1] =
                                            Append(@, nodeTo)]
    /\ added' = Append(added, <<nodeFrom, nodeTo>>)
    /\ UNCHANGED <<shared, seed, nonstarter, owning, count, randomSource,
                   traversals, jumpProbability, calculated, summed, pc, rounds,
                   idx, round, node, result, walk, ncalls, script, invoked,
                   origins>>

\* The steps of a Calculate call running on graph g.
CalculateStep(g) ==
    \/ StartWalk(g)
    \/ CalculateReturn(g)
    \/ TraverseNode(g)
    \/ JumpOut(g)
    \/ DeadEnd(g)
    \/ FollowLink(g)

\* A Calculate call by a caller that keeps no record of its calls.
Call(g, p) == CalculateCall(g, p.jp, p.rounds) /\ UNCHANGED script

\* A caller using one Graph: Calculate and Pagerank calls in any order.
Next ==
    \/ \E p \in CallParams : Call(Solo, p)
    \/ CalculateStep(Solo)
    \/ \E n \in Nodes, normalized \in BOOLEAN : PagerankCall(Solo, n, normalized)

Spec == Init /\ [][Next]_vars

\* The Calculate calls of a caller that asks for up to one round more.
WalkParams == [jp : JumpProbs, rounds : 0..(MaxRounds + 1)]

\* A caller using one Graph for Calculate calls only.
NextCalc ==
    \/ \E p \in WalkParams : Call(Solo, p)
    \/ CalculateStep(Solo)

SpecCalc == InitCalc /\ [][NextCalc]_vars

\* Calculate runs on its caller's goroutine without ever blocking: a running
\* call keeps taking steps.  The graphs are those without a cycle.
NextLive ==
    \/ \E p \in CallParams : Call(Solo, p)
    \/ CalculateStep(Solo)

SpecLive == InitLive /\ [][NextLive]_vars /\ WF_vars(CalculateStep(Solo))

\* A caller of the graph-owning variant: AddEdge calls, before and after one
\* Calculate call, one call at a time.
NextOwned ==
    \/ \E nodeFrom \in Nodes, nodeTo \in Nodes : AddEdge(nodeFrom, nodeTo)
    \/ \E p \in CallParams : ncalls[Solo] = 0 /\ Call(Solo, p)
    \/ CalculateStep(Solo)

SpecOwned == InitOwned /\ [][NextOwned]_vars

\* A Calculate call on the first of two graphs driven alike.
Drive(p) == CalculateCall(Solo, p.jp, p.rounds) /\ script' = Append(script, p)

\* The next Calculate call on graph g repeats the call of the same rank made
\* on the first graph.
Replay(g) ==
    /\ ncalls[g] < Len(script)
    /\ CalculateCall(g, script[ncalls[g] + 1].jp, script[ncalls[g] + 1].rounds)
    /\ UNCHANGED script

\* A caller driving two Graphs with the same calls from one thread: a
\* Calculate call on one graph runs to its return before the next call is
\* made, and the calls on the second graph repeat those made on the first.
NextPair ==
    \/ /\ \A h \in Graphs \ {Solo} : pc[h] = "idle"
       /\ \/ \E p \in CallParams : Drive(p)
          \/ CalculateStep(Solo)
    \/ \E g \in Graphs \ {Solo} :
          /\ pc[Solo] = "idle"
          /\ (Replay(g) \/ CalculateStep(g))

SpecPair == InitPair /\ [][NextPair]_vars

\* wg.Wait() has returned: no Calculate call is running.
Waited == \A g \in Graphs : pc[g] = "idle"

\* TestPagerankParallel: one goroutine per Graph, each making one Calculate
\* call; the steps of the calls interleave.  Pagerank is called on the first
\* graph while no call is running.
NextShared ==
    \E g \in Graphs :
        \/ \E p \in CallParams : ncalls[g] = 0 /\ Call(g, p)
        \/ CalculateStep(g)
        \/ \E n \in Nodes, normalized \in BOOLEAN :
              g = Solo /\ Waited /\ PagerankCall(g, n, normalized)

SpecShared == InitShared /\ [][NextShared]_vars

\* ---------------------------------------------------------- claims
\* The nodes some node has an edge to.
Targets == UNION {{edges[m][i] : i \in 1..Len(edges[m])} : m \in Nodes}

\* The sum of the counters of g's collection, read from the counters.
RECURSIVE CountSumTo(_, _)
CountSumTo(g, k) ==
    IF k = 0 THEN 0 ELSE count[Obj(g, NodeSeq[k])] + CountSumTo(g, k - 1)

CountSum(g) == CountSumTo(g, NumNodes)

\* C1: on a Graph on which no Calculate call has returned, Pagerank returns
\* the "not yet calculated" error with value 0, for every node and both
\* values of normalized, whatever the nodes' traversal counts are.
C1_ErrorBeforeCalculate ==
    \A g \in Graphs :
        (result[g] # None /\ ~calculated[g])
            => (result[g].err /\ result[g].value = <<0, 1>>)

\* The first graph has not been calculated, its nodes already hold
\* traversals (of the other graph's walks), and Pagerank returned the error.
C1_Witness ==
    /\ ~calculated[Solo]
    /\ result[Solo] # None
    /\ result[Solo].err
    /\ count[Obj(Solo, result[Solo].node)] > 0

\* C2: once a Calculate call has returned on a Graph, every Pagerank call on
\* it returns a nil error, also when the total traversal count is zero.
C2_NoErrorAfterCalculate ==
    \A g \in Graphs : (calculated[g] /\ result[g] # None) => ~result[g].err

\* Pagerank returned without error the result of a division by zero.
C2_Witness ==
    /\ calculated[Solo]
    /\ result[Solo] # None
    /\ ~result[Solo].err
    /\ result[Solo].value[2] = 0
    /\ CountSum(Solo) = 0

\* C3 (as claimed): after Calculate, when at least one traversal is recorded,
\* the total a successful Pagerank call divided by is the sum of the traversal
\* counts of all nodes of the collection, so the normalized values sum to 1.
C3_TotalIsSum ==
    \A g \in Graphs :
        (result[g] # None /\ ~result[g].err /\ CountSum(g) > 0)
            => traversals[g] = CountSum(g)

\* A step that is a Pagerank call (or leaves everything as it is): every step
\* of a Calculate call moves its graph's pc.
PagerankStep == pc' = pc

\* The total a Pagerank call made in the current state divides by.
Divisor(g) == IF summed[g] THEN traversals[g] ELSE traversals[g] + CountSum(g)

\* What Pagerank(n, normalized) returns in the current state: a function of
\* the calculated flag, the node's count and the divisor.
Answer(g, n, normalized) ==
    IF ~calculated[g] THEN <<0, 1>>
    ELSE LET total == Divisor(g)
             num == IF normalized THEN count[Obj(g, n)]
                    ELSE NumNodes * count[Obj(g, n)]
         IN IF total = 0 THEN (IF num = 0 THEN <<0, 0>> ELSE <<1, 0>>)
            ELSE <<num \div Gcd(num, total), total \div Gcd(num, total)>>

\* C4: a Pagerank call changes no traversal count, not the calculated flag
\* and, once the total is cached, not the cached total; it returns the value
\* that is the answer in the state it leaves, and it changes nothing an
\* answer depends on (flag, counts, divisor): as long as only Pagerank calls
\* are made, calls with the same arguments return the same value.
C4_PagerankIdempotent ==
    [][\A g \in Graphs :
          PagerankStep =>
              /\ count' = count
              /\ calculated' = calculated
              /\ summed[g] => (summed'[g] /\ traversals'[g] = traversals[g])
              /\ Divisor(g)' = Divisor(g)
              /\ (result'[g] # None /\ result'[g] # result[g]) =>
                     result'[g].value =
                         Answer(g, result'[g].node, result'[g].normalized)
      ]_vars

\* A Pagerank call that found the total cached returned a proper fraction.
C4_Witness ==
    /\ result[Solo] # None
    /\ result[Solo].cached
    /\ result[Solo].value[1] > 0
    /\ result[Solo].value[2] > 1

\* C5: two Graphs built with the same seed over separate but structurally
\* identical collections and driven by the same Calculate calls end with the
\* same traversal counts on corresponding nodes, having consumed the same
\* number of draws.
C5_SameSeedSameCounts ==
    ((\A g \in Graphs : pc[g] = "idle" /\ ncalls[g] = ncalls[Solo]) /\ ~shared)
        => \A g \in Graphs :
               /\ \A n \in Nodes : count[<<g, n>>] = count[<<Solo, n>>]
               /\ randomSource[g] = randomSource[Solo]

\* Both graphs have made two calls, the last with jump probability 1/2, and
\* walks went past their origins.
C5_Witness ==
    /\ \A g \in Graphs : pc[g] = "idle" /\ ncalls[g] = 2
    /\ jumpProbability[Solo] = 1
    /\ \E n \in Nodes : count[<<2, n>>] > 2

\* C6: no step lowers a node's traversal count.
C6_CountsNeverDecrease ==
    [][\A o \in Objs : count'[o] >= count[o]]_vars

\* A second Calculate call added its samples to those of the first.
C6_Witness ==
    /\ pc[Solo] = "idle"
    /\ ncalls[Solo] = 2
    /\ \A n \in Nodes : count[Obj(Solo, n)] >= 2

\* C7: when concurrent Calculate calls of Graphs that share their node
\* objects have all returned, every node's count is the number of Traverse()
\* invocations made on it by all runs together.
C7_NoLostIncrement ==
    (shared /\ \A g \in Graphs : pc[g] = "idle")
        => \A o \in Objs : count[o] = invoked[o]

\* Both runs made one walk of one step from every node: each shared counter
\* was incremented once by each run.
C7_Witness ==
    /\ shared
    /\ \A g \in Graphs :
          pc[g] = "idle" /\ ncalls[g] = 1 /\ jumpProbability[g] = 2 /\ rounds[g] = 1
    /\ \A n \in Nodes : count[<<1, n>>] = 2

\* C8: Calculate(1.0, R) on a Graph whose counters are all zero leaves R
\* traversals on every starter and 0 on every non-starter, whatever the edges
\* are; with only starters each normalized Pagerank is 1/nodeCount.
C8_JumpAlwaysOneStep ==
    \A g \in Graphs :
        (pc[g] = "idle" /\ ncalls[g] = 1 /\ jumpProbability[g] = 2 /\ ~shared)
            => /\ \A n \in Nodes :
                      count[<<g, n>>] = IF n \in nonstarter THEN 0 ELSE rounds[g]
               /\ (/\ result[g] # None
                   /\ result[g].normalized
                   /\ nonstarter = {}
                   /\ rounds[g] > 0) => result[g].value = <<1, NumNodes>>

\* Calculate(1.0, 1) has returned on a graph whose starter 1 has an edge to
\* the non-starter 2.
C8_Witness ==
    /\ pc[Solo] = "idle"
    /\ ncalls[Solo] = 1
    /\ jumpProbability[Solo] = 2
    /\ rounds[Solo] = 1
    /\ nonstarter = {2}
    /\ edges[1] = <<2, 3>>
    /\ count[<<Solo, 1>>] = 1

\* C9: every walk starts on a starter node; a non-starter's count grows only
\* when it is visited as an outgoing link of the node visited before it; a
\* non-starter that is no node's outgoing link keeps its count.
C9_NonStarterNeverOrigin ==
    [][\A g \in Graphs :
          /\ walk'[g] # << >> => walk'[g][1] \notin nonstarter
          /\ \A n \in nonstarter :
                count'[Obj(g, n)] # count[Obj(g, n)] =>
                    /\ Len(walk'[g]) >= 2
                    /\ walk'[g][Len(walk'[g])] = n
                    /\ \E i \in 1..Len(edges[walk'[g][Len(walk'[g]) - 1]]) :
                          edges[walk'[g][Len(walk'[g]) - 1]][i] = n
          /\ \A n \in nonstarter \ Targets :
                count'[Obj(g, n)] = count[Obj(g, n)]
      ]_vars

\* After a Calculate call one non-starter was visited as a hop and another,
\* which no edge leads to, was not visited.
C9_Witness ==
    /\ calculated[Solo]
    /\ \E n \in nonstarter : count[Obj(Solo, n)] > 0
    /\ \E n \in nonstarter \ Targets : count[Obj(Solo, n)] = 0

\* C10: a walk makes no Traverse() call after the one on a node without
\* outgoing edges: such a node is the last node of its walk.
C10_DeadEndEndsWalk ==
    \A g \in Graphs :
        /\ \A i \in 1..(Len(walk[g]) - 1) : edges[walk[g][i]] # << >>
        /\ (pc[g] = "traverse" /\ walk[g] # << >>)
               => edges[walk[g][Len(walk[g])]] # << >>

\* With jump probability 0 a walk of two nodes has ended on a dead end.
C10_Witness ==
    /\ pc[Solo] = "loop"
    /\ jumpProbability[Solo] = 0
    /\ Len(walk[Solo]) >= 2
    /\ edges[walk[Solo][Len(walk[Solo])]] = << >>

\* C11 (as claimed): in every state in which summed is true, the cached total
\* is the current sum of the traversal counts of the nodes of the collection.
C11_CachedTotalIsCurrentSum ==
    \A g \in Graphs : summed[g] => traversals[g] = CountSum(g)

\* C12: the cached total is computed once in a Graph's lifetime.  Before it
\* is, g.traversals is 0; summed becomes true only in a Pagerank call on a
\* calculated graph that returns without error, and that call stores the sum
\* of the counts; from then on no step, of Calculate or of Pagerank, changes
\* summed or g.traversals.
C12_CacheComputedOnce ==
    [][\A g \in Graphs :
          /\ ~summed[g] => traversals[g] = 0
          /\ summed[g] => (summed'[g] /\ traversals'[g] = traversals[g])
          /\ traversals'[g] # traversals[g] => (~summed[g] /\ summed'[g])
          /\ (~summed[g] /\ summed'[g]) =>
                 /\ calculated[g]
                 /\ PagerankStep
                 /\ result'[g] # None
                 /\ ~result'[g].err
                 /\ traversals'[g] = CountSum(g)
      ]_vars

\* After a second Calculate call a Pagerank call found the total cached, and
\* the cached total is no longer the sum of the counts.
C12_Witness ==
    /\ pc[Solo] = "idle"
    /\ ncalls[Solo] = 2
    /\ summed[Solo]
    /\ result[Solo] # None
    /\ result[Solo].cached
    /\ traversals[Solo] > 0
    /\ traversals[Solo] < CountSum(Solo)

\* k copies of x.
RECURSIVE Repeat(_, _)
Repeat(x, k) == IF k = 0 THEN << >> ELSE <<x>> \o Repeat(x, k - 1)

\* The origins of the walks a Calculate call with r rounds owes from index i
\* of the caller's collection on: r walks from each starter, in collection
\* order.
RECURSIVE OriginsFrom(_, _)
OriginsFrom(i, r) ==
    IF i > Len(NodeSeq) THEN << >>
    ELSE (IF NodeSeq[i] \in nonstarter THEN << >> ELSE Repeat(NodeSeq[i], r))
             \o OriginsFrom(i + 1, r)

AllOrigins(g) == OriginsFrom(1, rounds[g])

\* C13: calculated is false from construction until the first Calculate call
\* returns; the step that sets it is taken with no walk running and after
\* RoundsPerNode walks have been started from every starter of the
\* collection; a Pagerank call returns a score only in such a state.
C13_CalculatedOnlyAfterAllWalks ==
    /\ [](\A g \in Graphs :
             /\ ncalls[g] = 0 => ~calculated[g]
             /\ (ncalls[g] = 1 /\ pc[g] # "idle") => ~calculated[g]
             /\ (result[g] # None /\ ~result[g].err) =>
                    /\ calculated[g]
                    /\ pc[g] = "idle"
                    /\ origins[g] = AllOrigins(g))
    /\ [][\A g \in Graphs :
             calculated'[g] # calculated[g] =>
                 /\ calculated'[g]
                 /\ pc[g] = "loop"
                 /\ pc'[g] = "idle"
                 /\ origins[g] = AllOrigins(g)
         ]_vars

\* The first Calculate call has run its last walk, of several, to its end
\* and has not returned yet: calculated is still false.
C13_Witness ==
    /\ ncalls[Solo] = 1
    /\ pc[Solo] = "loop"
    /\ Len(origins[Solo]) >= 2
    /\ origins[Solo] = AllOrigins(Solo)
    /\ \E n \in Nodes : count[Obj(Solo, n)] >= 2
    /\ ~calculated[Solo]

\* C14: a step of traverseFrom(node) first raises node's count by exactly 1
\* and changes no other count, without drawing from the random source; the
\* jump test's draw (and the draw of the link) is made only after it, on the
\* node just counted, and changes no count.  No step changes the counts in
\* any other way.
C14_StepIncrementsOneCounter ==
    [][\A g \in Graphs :
          /\ (pc[g] = "traverse" /\ pc'[g] # pc[g]) =>
                 /\ pc'[g] = "decide"
                 /\ count' = [count EXCEPT ![Obj(g, node[g])] = @ + 1]
                 /\ randomSource' = randomSource
                 /\ walk'[g] = Append(walk[g], node[g])
          /\ randomSource'[g] # randomSource[g] =>
                 /\ pc[g] = "decide"
                 /\ walk[g] # << >>
                 /\ walk[g][Len(walk[g])] = node[g]
                 /\ count' = count
          /\ count' # count =>
                 \E o \in Objs : count' = [count EXCEPT ![o] = @ + 1]
      ]_vars

\* The second step of a walk has counted its node, and only it, and has not
\* drawn yet.
C14_Witness ==
    /\ pc[Solo] = "decide"
    /\ walk[Solo] = <<1, 2>>
    /\ count[Obj(Solo, 1)] = 1
    /\ count[Obj(Solo, 2)] = 1
    /\ count[Obj(Solo, 3)] = 0
    /\ randomSource[Solo] = 2

\* C15: within one Calculate call the origins of the walks started so far
\* are an initial part of: RoundsPerNode times the first starter, then
\* RoundsPerNode times the next starter, and so on in collection order; a
\* walk starts only when no walk is running, at its origin, and a running walk
\* ends only by one of its termination tests.
C15_WalksInCollectionOrder ==
    /\ [](\A g \in Graphs :
             /\ Len(origins[g]) <= Len(AllOrigins(g))
             /\ origins[g] = SubSeq(AllOrigins(g), 1, Len(origins[g])))
    /\ [][\A g \in Graphs :
             /\ (origins'[g] # origins[g] /\ origins'[g] # << >>) =>
                    /\ pc[g] = "loop"
                    /\ pc'[g] = "traverse"
                    /\ origins'[g] = Append(origins[g], node'[g])
                    /\ walk'[g] = << >>
             /\ (pc'[g] = "loop" /\ pc[g] \in {"traverse", "decide"}) =>
                    /\ pc[g] = "decide"
                    /\ origins'[g] = origins[g]
         ]_vars

\* A call with two rounds has run both walks from starter 1, then both from
\* starter 3 (2 is no starter), the last one over more than one node.
C15_Witness ==
    /\ pc[Solo] = "loop"
    /\ rounds[Solo] = 2
    /\ nonstarter = {2}
    /\ origins[Solo] = <<1, 1, 3, 3>>
    /\ Len(walk[Solo]) >= 2

\* The nodes a walk can visit: those reachable from a starter.
Reachable == Closure(Nodes \ nonstarter)

\* Every node reachable from a starter has an outgoing edge.
NoDeadEnd == \A n \in Reachable : edges[n] # << >>

\* C16: with jumpProbability 0 a walk ends only on a node without outgoing
\* edges, never by the jump test.  When every node reachable from a starter
\* has an outgoing edge, a call Calculate(0, R) with R >= 1 on a collection
\* with a starter never gets past its first walk: at every step of the walk
\* the jump test fails and an outgoing link exists, so the walk goes on, the
\* call does not return and sets no calculated flag.
C16_ZeroJumpNeverReturns ==
    /\ [](\A g \in Graphs :
             (/\ jumpProbability[g] = 0
              /\ ncalls[g] >= 1
              /\ rounds[g] >= 1
              /\ nonstarter # Nodes
              /\ NoDeadEnd) =>
                 /\ pc[g] # "idle"
                 /\ Len(origins[g]) <= 1
                 /\ ncalls[g] = 1 => ~calculated[g]
                 /\ pc[g] = "decide" =>
                        /\ ~((seed \div (2^randomSource[g])) % 2 < 0)
                        /\ Len(edges[node[g]]) >= 1)
    /\ [][\A g \in Graphs :
             (/\ jumpProbability[g] = 0
              /\ pc[g] = "decide"
              /\ pc'[g] = "loop") => edges[node[g]] = << >>
         ]_vars

\* Calculate(0, R) on a graph without reachable dead end: the first walk of
\* the first call is back on its origin, and goes on.
C16_Witness ==
    /\ jumpProbability[Solo] = 0
    /\ ncalls[Solo] = 1
    /\ rounds[Solo] >= 1
    /\ NoDeadEnd
    /\ pc[Solo] = "decide"
    /\ Len(walk[Solo]) >= 3
    /\ walk[Solo][3] = walk[Solo][1]
    /\ ~calculated[Solo]

\* The number of nodes of the longest path from n (of an acyclic relation).
RECURSIVE LongestFrom(_)
LongestFrom(n) ==
    LET below == {LongestFrom(edges[n][i]) : i \in 1..Len(edges[n])}
    IN IF below = {} THEN 1 ELSE 1 + CHOOSE k \in below : \A j \in below : j <= k

LongestPath ==
    CHOOSE k \in {LongestFrom(n) : n \in Nodes} :
        \A n \in Nodes : LongestFrom(n) <= k

\* C17: when the edge relation is acyclic, a walk visits no node twice and
\* at most as many nodes as the longest path has, and every Calculate call,
\* whatever its jump probability, rounds and draws, returns and leaves
\* calculated true.
C17_AcyclicTerminates ==
    /\ [](\A g \in Graphs :
             Acyclic =>
                 /\ Len(walk[g]) <= LongestPath
                 /\ \A i, j \in 1..Len(walk[g]) :
                        walk[g][i] = walk[g][j] => i = j)
    /\ \A g \in Graphs :
          (Acyclic /\ pc[g] # "idle") ~> (pc[g] = "idle" /\ calculated[g])

\* On an acyclic graph a second call has returned, with jump probability 0,
\* its last walk having gone along a longest path of three nodes.
C17_Witness ==
    /\ Acyclic
    /\ pc[Solo] = "idle"
    /\ calculated[Solo]
    /\ ncalls[Solo] = 2
    /\ jumpProbability[Solo] = 0
    /\ rounds[Solo] = 1
    /\ LongestPath = 3
    /\ \E n \in Nodes : count[Obj(Solo, n)] >= 5

\* C18: every node a walk visits after its origin is an outgoing link of the
\* node visited just before it, at an index from 0 to len(outlinks) - 1; the
\* index is drawn (a second draw) only on a node that has outgoing links,
\* and a walk that ends consumes one draw; so only nodes reachable from a
\* starter are ever counted, and the count of every other node stays as it
\* was.
C18_WalkFollowsEdges ==
    /\ [](\A g \in Graphs :
             /\ \A i \in 2..Len(walk[g]) :
                    \E k \in 1..Len(edges[walk[g][i - 1]]) :
                        edges[walk[g][i - 1]][k] = walk[g][i]
             /\ \A i \in 1..Len(walk[g]) : walk[g][i] \in Reachable
             /\ \A n \in Nodes \ Reachable : count[<<g, n>>] = 0)
    /\ [][\A g \in Graphs :
             /\ (pc[g] = "decide" /\ pc'[g] = "traverse") =>
                    /\ Len(edges[node[g]]) >= 1
                    /\ \E k \in 0..(Len(edges[node[g]]) - 1) :
                           node'[g] = edges[node[g]][k + 1]
                    /\ randomSource'[g] = (randomSource[g] + 2) % SeedLen
             /\ (pc[g] = "decide" /\ pc'[g] = "loop") =>
                    randomSource'[g] = (randomSource[g] + 1) % SeedLen
             /\ (pc[g] = "decide" /\ edges[node[g]] = << >>) =>
                    pc'[g] \in {"decide", "loop"}
             /\ \A n \in Nodes \ Reachable : count'[<<g, n>>] = count[<<g, n>>]
         ]_vars

\* After a call from the only starter, 1, node 3, which has outgoing edges
\* but cannot be reached from 1, has count 0, and node 2 has been reached.
C18_Witness ==
    /\ calculated[Solo]
    /\ nonstarter = {2, 3}
    /\ edges[3] # << >>
    /\ 3 \notin Reachable
    /\ count[<<Solo, 3>>] = 0
    /\ count[<<Solo, 2>>] >= 2

\* The nodes that were an endpoint of an AddEdge call.
Endpoints ==
    {added[i][1] : i \in 1..Len(added)} \cup {added[i][2] : i \in 1..Len(added)}

\* The targets of the AddEdge(n, _) calls from call i on, in call order.
RECURSIVE TargetsFrom(_, _)
TargetsFrom(n, i) ==
    IF i > Len(added) THEN << >>
    ELSE (IF added[i][1] = n THEN <<added[i][2]>> ELSE << >>)
             \o TargetsFrom(n, i + 1)

\* C19: in the graph-owning variant, after any sequence of AddEdge calls on
\* a new Graph, g.nodes holds every node that was an endpoint of a call, once
\* each; g.nodes, g.edges and g.nodeMap have the same size; nodeMap[n] is the
\* index of n in g.nodes; g.edges[nodeMap[n]] lists the targets of the
\* AddEdge(n, _) calls in call order, duplicates kept; and an AddEdge call
\* changes no traversal count and not the calculated flag.
C19_AddEdgeKeepsTables ==
    /\ [](owning =>
             /\ {nodes[i] : i \in 1..Len(nodes)} = Endpoints
             /\ \A i, j \in 1..Len(nodes) : nodes[i] = nodes[j] => i = j
             /\ Len(edges) = Len(nodes)
             /\ Cardinality(DOMAIN nodeMap) = Len(nodes)
             /\ DOMAIN nodeMap = Endpoints
             /\ \A n \in DOMAIN nodeMap :
                    /\ nodeMap[n] \in 0..(Len(nodes) - 1)
                    /\ nodes[nodeMap[n] + 1] = n
                    /\ edges[nodeMap[n] + 1] = TargetsFrom(n, 1))
    /\ [][added' # added =>
             /\ count' = count
             /\ calculated' = calculated
         ]_vars

\* AddEdge(1, 1), then Calculate with one round, then AddEdge(1, 2) twice:
\* node 1 is registered once and has been walked, the starter 2 was
\* registered after the call and has no traversal, the duplicate edge is kept.
C19_Witness ==
    /\ owning
    /\ calculated[Solo]
    /\ rounds[Solo] = 1
    /\ nonstarter = {}
    /\ added = <<<<1, 1>>, <<1, 2>>, <<1, 2>>>>
    /\ nodes = <<1, 2>>
    /\ edges = <<<<1, 2, 2>>, << >>>>
    /\ count[<<Solo, 1>>] >= 1
    /\ count[<<Solo, 2>>] = 0
====
